---- MODULE Spec2Model ----
(***************************************************************************)
(* Model of src/main.py: the Flask handler optimize(), which builds an     *)
(* OR-Tools routing model (pickup-and-delivery with a Time and a Capacity  *)
(* dimension), solves it under a 30 second limit and extracts one route    *)
(* per used vehicle.                                                       *)
(*                                                                         *)
(* The routing library is not part of the repository.  It is modelled by   *)
(* its contract: SolveWithParameters returns None when no assignment       *)
(* satisfies the constraints the handler posted, and otherwise an          *)
(* assignment that satisfies all of them; every index of the model that is *)
(* not a vehicle start or end is mandatory (the handler adds no            *)
(* disjunction).  The handler neither pins the Time cumul variables nor    *)
(* has them minimised, so the returned assignment holds each as the range  *)
(* of the values the constraints allow on the chosen routes.               *)
(* Assignment.Value is specified for a bound variable only; on a range it  *)
(* reads one end of it, and which end is the library build's choice, so it *)
(* is modelled as a choice between the two.                                *)
(*                                                                         *)
(* Python lists are 0-based.  time_matrix is a function on 0..N-1; jobs    *)
(* and drivers are sequences, so vehicle_id v of the source is v+1 here.   *)
(***************************************************************************)
EXTENDS Integers, Sequences, FiniteSets, TLC

VARIABLES pc, request, feasible, best, elapsed, solveCalled, response

vars == <<pc, request, feasible, best, elapsed, solveCalled, response>>

None == [none |-> TRUE]

-----------------------------------------------------------------------------
(* Bounds of the model and constants of the program                        *)

MaxJobs == 2
MaxDrivers == 2
MaxNodes == 4
\* The seconds between two readings of the search clock.
ClockStep == 5

Tolerance == 900
SlackMax == 1800
Horizon == 86400
TimeLimitSeconds == 30

\* The operators below bind a value to a bound variable (x \in {e}) where it
\* is used more than once, so that it is computed once.
Max(S) == CHOOSE m \in {CHOOSE x \in T : \A y \in T : y <= x : T \in {S}} : TRUE
Min(S) == CHOOSE m \in {CHOOSE x \in T : \A y \in T : x <= y : T \in {S}} : TRUE

\* f[1] + ... + f[k].
RECURSIVE SumTo(_, _)
SumTo(f, k) == IF k = 0 THEN 0 ELSE f[k] + SumTo(f, k - 1)

SumSeq(s) == CHOOSE n \in {SumTo(f, Len(f)) : f \in {s}} : TRUE

RECURSIVE Perms(_)
Perms(S) ==
  IF S = {} THEN {<<>>}
  ELSE UNION {{<<x>> \o p : p \in Perms(S \ {x})} : x \in S}

RECURSIVE SeqsUpTo(_, _)
SeqsUpTo(S, n) ==
  IF n = 0 THEN {<<>>}
  ELSE SeqsUpTo(S, n - 1) \cup
       {Append(s, x) : s \in {t \in SeqsUpTo(S, n - 1) : Len(t) = n - 1}, x \in S}

-----------------------------------------------------------------------------
(* The requests the handler is run on                                      *)

Shifts == {<<0, 36000>>, <<1500, 36000>>, <<2500, 36000>>, <<0, 50>>}

\* Every driver starts at node 0; the first, third, ... end at node 1 and the
\* second, fourth, ... at node 0.
DriverAt(i, cap, sh) ==
  [id |-> 10 + i, name |-> <<"name", i>>, phone |-> <<"phone", i>>,
   start_idx |-> 0, end_idx |-> i % 2,
   capacity |-> cap, shift_start |-> sh[1], shift_end |-> sh[2]]

RECURSIVE DriverLists(_)
DriverLists(n) ==
  IF n = 1
  THEN {<<DriverAt(1, 1, <<0, 36000>>)>>} \cup {<<DriverAt(1, 4, s)>> : s \in Shifts}
  ELSE {Append(ds, DriverAt(n, 4, s)) :
          ds \in DriverLists(n - 1), s \in {<<0, 36000>>, <<2500, 36000>>}}

DepotNodes(ds) ==
  {ds[v].start_idx : v \in 1..Len(ds)} \cup {ds[v].end_idx : v \in 1..Len(ds)}

\* Jobs between two nodes that are no vehicle's start or end node; jobs of a
\* list may share nodes.
JobOptions(n, ds) ==
  {[pickup_node |-> p, dropoff_node |-> d, passengers |-> k, pickup_time |-> 1000] :
     <<p, d>> \in {x \in ((1..(n - 1)) \ DepotNodes(ds)) \X ((1..(n - 1)) \ DepotNodes(ds)) :
                     x[1] < x[2]},
     k \in {0, 1}}

\* "zero": every duration 0.  "forward": 500 from a node other than node 0 to
\* a later node, else 0 (travel(start,A) = 0, travel(A,B) = 500 and
\* travel(B,end) = 0 for a job from A to B).  w is the length of each row.
Matrix(kind, n, w) ==
  [i \in 0..(n - 1) |->
     [j \in 0..(w - 1) |-> IF kind = "forward" /\ 0 < i /\ i < j THEN 500 ELSE 0]]

\* Square matrices, and one whose rows have one entry more than there are rows.
Matrices(n) == {Matrix("zero", n, n), Matrix("forward", n, n), Matrix("forward", n, n + 1)}

AllKeys == {"jobs", "drivers", "time_matrix"}

WellFormed ==
  UNION {UNION {
    {[keys |-> AllKeys, jobs |-> js, drivers |-> ds, time_matrix |-> m] :
       js \in SeqsUpTo(JobOptions(n, ds), MaxJobs), m \in Matrices(n)} :
    ds \in UNION {DriverLists(m) : m \in 1..MaxDrivers}} : n \in 3..MaxNodes}

\* A payload that lacks one of the three top-level keys.
MissingKey ==
  {[r EXCEPT !.keys = AllKeys \ {k}] :
     r \in {x \in WellFormed : x.jobs = <<>> /\ Len(x.drivers) = 1}, k \in AllKeys}

Requests == WellFormed \cup MissingKey

-----------------------------------------------------------------------------
(* RoutingIndexManager(num_locations, num_vehicles, starts, ends)          *)

NumVehicles(r) == Len(r.drivers)
NumLocations(r) == Cardinality(DOMAIN r.time_matrix)
Vehicles(r) == 1..NumVehicles(r)

IsStartNode(r, n) == \E v \in Vehicles(r) : r.drivers[v].start_idx = n
IsEndNode(r, n) == \E v \in Vehicles(r) : r.drivers[v].end_idx = n

\* The nodes that get an index of their own: all but those that are only
\* some vehicle's end.
IndexedNodes(r) ==
  {n \in 0..(NumLocations(r) - 1) : IsStartNode(r, n) \/ ~IsEndNode(r, n)}

NodeToIndex(r, n) ==
  IF n \in IndexedNodes(r) THEN Cardinality({m \in IndexedNodes(r) : m < n}) ELSE -1

\* A vehicle whose start node is the start of an earlier vehicle gets a
\* fresh start index.
RepeatedStart(r, v) ==
  \E u \in 1..(v - 1) : r.drivers[u].start_idx = r.drivers[v].start_idx

Size(r) ==
  Cardinality(IndexedNodes(r)) + Cardinality({v \in Vehicles(r) : RepeatedStart(r, v)})

Start(r, v) ==
  IF RepeatedStart(r, v)
  THEN Cardinality(IndexedNodes(r))
         + Cardinality({u \in 1..(v - 1) : RepeatedStart(r, u)})
  ELSE NodeToIndex(r, r.drivers[v].start_idx)

End(r, v) == Size(r) + v - 1

IsEnd(r, i) == i >= Size(r)

Indices(r) == 0..(Size(r) + NumVehicles(r) - 1)

IndexToNode(r, i) ==
  IF IsEnd(r, i) THEN r.drivers[i - Size(r) + 1].end_idx
  ELSE IF i < Cardinality(IndexedNodes(r))
       THEN CHOOSE n \in IndexedNodes(r) : NodeToIndex(r, n) = i
       ELSE r.drivers[CHOOSE v \in Vehicles(r) : Start(r, v) = i].start_idx

\* The indices that are no vehicle's start or end: each is visited by
\* exactly one vehicle.
VisitIndices(r) ==
  {i \in 0..(Size(r) - 1) : \A v \in Vehicles(r) : Start(r, v) # i}

-----------------------------------------------------------------------------
(* The routing model: an assignment gives each vehicle the sequence of     *)
(* visit indices between its start and its end                             *)

\* time_callback with the two node arguments exchanged.
time_callback_Transposed(r, from_index, to_index) ==
  r.time_matrix[IndexToNode(r, to_index)][IndexToNode(r, from_index)]

\* time_callback (lines 37-40).
time_callback(r, from_index, to_index) ==
  r.time_matrix[IndexToNode(r, from_index)][IndexToNode(r, to_index)]

\* Lines 57-58.
pickup_idx(r, job) == NodeToIndex(r, job.pickup_node)
dropoff_idx(r, job) == NodeToIndex(r, job.dropoff_node)

Jobs(r) == {r.jobs[x] : x \in 1..Len(r.jobs)}

\* The pickup's time window with the 30 minutes of the slack as tolerance.
pickup_tw_Slack(job) == <<job.pickup_time - SlackMax, job.pickup_time + SlackMax>>

\* Lines 61-62: the pickup's time window.
pickup_tw(job) == <<job.pickup_time - Tolerance, job.pickup_time + Tolerance>>

\* Line 99: the range of the Time cumul variable of a vehicle's start.
start_range(driver) == <<driver.shift_start, driver.shift_start>>

\* The end's range without the driver's shift_end.
end_range_NoShift(driver) == <<0, Horizon>>

\* Line 100: the range of the Time cumul variable of a vehicle's end.
end_range(driver) == <<0, driver.shift_end>>

\* Every SetRange the handler calls on the Time cumul variable of index i
\* (lines 64, 65, 99, 100), with the range [0, 24 * 3600] the dimension gives
\* every cumul variable (line 49).
TimeRanges(r, i) ==
  {<<0, Horizon>>}
    \cup {pickup_tw(job) : job \in {j \in Jobs(r) : pickup_idx(r, j) = i}}
    \cup {<<0, Horizon>> : job \in {j \in Jobs(r) : dropoff_idx(r, j) = i}}
    \cup {start_range(r.drivers[v]) : v \in {u \in Vehicles(r) : Start(r, u) = i}}
    \cup {end_range(r.drivers[v]) : v \in {u \in Vehicles(r) : End(r, u) = i}}

RangeLo(r, i) == Max({x[1] : x \in TimeRanges(r, i)})
RangeHi(r, i) == Min({x[2] : x \in TimeRanges(r, i)})

\* No same-vehicle constraint is posted.
SameVehiclePairs_None(r) == {}

\* Lines 69-71: VehicleVar(pickup_idx) == VehicleVar(dropoff_idx), as pairs.
SameVehiclePairs(r) == {<<pickup_idx(r, job), dropoff_idx(r, job)>> : job \in Jobs(r)}

\* Lines 72-74: CumulVar(pickup_idx) <= CumulVar(dropoff_idx), as pairs.
Precedences(r) == {<<pickup_idx(r, job), dropoff_idx(r, job)>> : job \in Jobs(r)}

\* demand_callback (lines 77-84): the first job of the list that has the
\* node as its pickup or its dropoff decides.
RECURSIVE demand_of(_, _)
demand_of(js, node) ==
  IF js = <<>> THEN 0
  ELSE IF node = Head(js).pickup_node THEN Head(js).passengers
  ELSE IF node = Head(js).dropoff_node THEN 0 - Head(js).passengers
  ELSE demand_of(Tail(js), node)

demand_callback(r, from_index) == demand_of(r.jobs, IndexToNode(r, from_index))

\* Lines 23-100: the routing model the handler builds from the payload.
RoutingModel(r) ==
  [vehicles |-> Vehicles(r),
   indices |-> Indices(r),
   visits |-> VisitIndices(r),
   start |-> [v \in Vehicles(r) |-> Start(r, v)],
   end |-> [v \in Vehicles(r) |-> End(r, v)],
   transit |-> [i \in Indices(r) |-> [j \in Indices(r) |-> time_callback(r, i, j)]],
   lo |-> [i \in Indices(r) |-> RangeLo(r, i)],
   hi |-> [i \in Indices(r) |-> RangeHi(r, i)],
   same_vehicle |-> SameVehiclePairs(r),
   precedence |-> Precedences(r),
   demand |-> [i \in Indices(r) |-> demand_callback(r, i)],
   capacity |-> [v \in Vehicles(r) |-> r.drivers[v].capacity]]

-----------------------------------------------------------------------------
(* The assignments of a routing model: each vehicle gets the sequence of   *)
(* visit indices between its start and its end                             *)

RECURSIVE RoutesFrom(_, _, _)
RoutesFrom(v, n, left) ==
  IF v = n THEN {<<p>> : p \in Perms(left)}
  ELSE UNION {{<<p>> \o rest : p \in Perms(S), rest \in RoutesFrom(v + 1, n, left \ S)} :
                S \in SUBSET left}

\* The paths of an assignment: start, the visits, end.
Paths(M, a) == [v \in M.vehicles |-> <<M.start[v]>> \o a[v] \o <<M.end[v]>>]

\* routing.VehicleVar of every index on the paths.
VehicleVars(M, path) ==
  [i \in M.indices |->
     CHOOSE v \in M.vehicles : \E k \in 1..Len(path[v]) : path[v][k] = i]

\* routing.NextVar of every index but the ends.
NextVars(M, path) ==
  [i \in {path[x[1]][x[2]] :
            x \in {y \in M.vehicles \X (1..Cardinality(M.indices)) : y[2] < Len(path[y[1]])}} |->
     CHOOSE j \in M.indices :
       \E v \in M.vehicles : \E k \in 1..(Len(path[v]) - 1) :
         path[v][k] = i /\ path[v][k + 1] = j]

\* An assignment as the paths, the NextVar values and the VehicleVar values.
Candidate(M, a) ==
  CHOOSE c \in {[path |-> p, vehicle |-> VehicleVars(M, p), next |-> NextVars(M, p)] :
                  p \in {Paths(M, a)}} : TRUE

\* Every way to put every visit index on exactly one vehicle's path: no
\* index is optional, as the handler adds no disjunction.
Candidates(M) ==
  {Candidate(M, a) : a \in RoutesFrom(1, Cardinality(M.vehicles), M.visits)}

SameVehicle(M, c) == \A x \in M.same_vehicle : c.vehicle[x[1]] = c.vehicle[x[2]]

\* One round of bound propagation on the lower ends of the Time cumul
\* variables: cumul(next) >= cumul + transit, cumul(next) <= cumul + transit
\* + slack with slack at most 30 * 60 (line 48), and the precedences.
Propagate(M, c, m) ==
  [i \in M.indices |->
     Max({m[i]}
         \cup {m[j] + M.transit[j][i] : j \in {x \in DOMAIN c.next : c.next[x] = i}}
         \cup {m[c.next[j]] - M.transit[j][c.next[j]] - SlackMax : j \in {i} \cap DOMAIN c.next}
         \cup {m[x[1]] : x \in {y \in M.precedence : y[2] = i}})]

RECURSIVE PropagateTimes(_, _, _, _)
PropagateTimes(M, c, m, n) ==
  IF n = 0 THEN m
  ELSE CHOOSE t \in {IF p = m THEN m ELSE PropagateTimes(M, c, p, n - 1) :
                       p \in {Propagate(M, c, m)}} : TRUE

\* The least values of the Time cumul variables on the routes of c.
CumulMin(M, c) == PropagateTimes(M, c, M.lo, Cardinality(M.indices))

\* One round of bound propagation on the upper ends, by the same constraints.
PropagateUpper(M, c, m) ==
  [i \in M.indices |->
     Min({m[i]}
         \cup {m[j] + M.transit[j][i] + SlackMax : j \in {x \in DOMAIN c.next : c.next[x] = i}}
         \cup {m[c.next[j]] - M.transit[j][c.next[j]] : j \in {i} \cap DOMAIN c.next}
         \cup {m[x[2]] : x \in {y \in M.precedence : y[1] = i}})]

RECURSIVE PropagateUpperTimes(_, _, _, _)
PropagateUpperTimes(M, c, m, n) ==
  IF n = 0 THEN m
  ELSE CHOOSE t \in {IF p = m THEN m ELSE PropagateUpperTimes(M, c, p, n - 1) :
                       p \in {PropagateUpper(M, c, m)}} : TRUE

\* The greatest values of the Time cumul variables on the routes of c.
CumulMax(M, c) == PropagateUpperTimes(M, c, M.hi, Cardinality(M.indices))

\* The Time dimension admits the routes of c: the least values are a fixed
\* point of the propagation and lie within every range.
TimeFeasible(M, c, m) ==
  /\ Propagate(M, c, m) = m
  /\ \A i \in M.indices : m[i] <= M.hi[i]

\* The Capacity cumul variable at position k of a path: 0 at the start
\* (fix_start_cumul_to_zero, line 91), then the sum of the demands of the
\* indices before k (slack 0, line 89).
CapacityCumul(M, path, k) == SumSeq([x \in 1..(k - 1) |-> M.demand[path[x]]])

\* Lines 87-93: the Capacity cumul stays within [0, capacity] of the vehicle.
CapacityFeasible(M, c) ==
  \A v \in M.vehicles : \A k \in 1..Len(c.path[v]) :
    /\ 0 <= CapacityCumul(M, c.path[v], k)
    /\ CapacityCumul(M, c.path[v], k) <= M.capacity[v]

\* The arc cost of an assignment (line 43).
Cost(M, c) ==
  SumSeq([v \in M.vehicles |->
            SumSeq([k \in 1..(Len(c.path[v]) - 1) |->
                      M.transit[c.path[v][k]][c.path[v][k + 1]]])])

\* The assignments that satisfy every constraint of the model, each as the
\* values of its NextVar and VehicleVar variables and the ranges of its Time
\* cumul variables, with its cost.
Solutions(M) ==
  {[next |-> y.c.next, vehicle |-> y.c.vehicle,
    time_min |-> y.m, time_max |-> CumulMax(M, y.c), cost |-> Cost(M, y.c)] :
     y \in {x \in {[c |-> c, m |-> CumulMin(M, c)] : c \in Candidates(M)} :
              /\ SameVehicle(M, x.c)
              /\ CapacityFeasible(M, x.c)
              /\ TimeFeasible(M, x.c, x.m)}}

\* The solutions of the routing model the handler builds from a payload.
SolutionsOf(r) == UNION {Solutions(M) : M \in {RoutingModel(r)}}

-----------------------------------------------------------------------------
(* The handler optimize(), lines 13-151                                    *)

Init ==
  /\ pc = "recv"
  /\ request \in Requests
  /\ feasible = SolutionsOf(request)
  /\ best = None
  /\ elapsed = 0
  /\ solveCalled = FALSE
  /\ response = None

\* Lines 19-21: data['jobs'], data['drivers'], data['time_matrix'] raise
\* KeyError on a payload that lacks the key.
HasAllKeys(r) == AllKeys \subseteq r.keys

\* Lines 149-151: the except clause answers 500 with the error's text.
ErrorResponse(e) == [code |-> 500, error |-> e]

\* Lines 111-113.
NoSolutionResponse == [code |-> 400, error |-> "Uygun rota bulunamadi"]

\* Lines 16-106: read the payload and build the routing model, whose
\* solutions are held in feasible from the start, as they are a function of
\* the payload.  The handler checks nothing else about the payload.
BuildModel ==
  /\ pc = "recv"
  /\ IF HasAllKeys(request)
     THEN /\ pc' = "solve"
          /\ UNCHANGED response
     ELSE /\ response' = ErrorResponse("KeyError")
          /\ pc' = "done"
  /\ UNCHANGED <<request, feasible, best, elapsed, solveCalled>>

\* Line 109, SolveWithParameters, first phase (PATH_CHEAPEST_ARC): a first
\* assignment that satisfies the model, or none when there is none.
FirstSolution ==
  /\ pc = "solve"
  /\ solveCalled' = TRUE
  /\ IF feasible = {}
     THEN /\ pc' = "nosolution"
          /\ UNCHANGED best
     ELSE /\ pc' = "search"
          /\ best' \in feasible
  /\ UNCHANGED <<request, feasible, elapsed, response>>

\* No time limit is set: the local search never stops by itself.
WithinTimeLimit_Unset(e) == TRUE

\* Line 106: search_params.time_limit.seconds = 30; the search goes on only
\* while the limit has not elapsed.
WithinTimeLimit(e) == e < TimeLimitSeconds

\* Line 109, second phase (GUIDED_LOCAL_SEARCH): the best assignment is
\* replaced by a cheaper one.
Improve ==
  /\ pc = "search"
  /\ WithinTimeLimit(elapsed)
  /\ \E s \in feasible : s.cost < best.cost /\ best' = s
  /\ UNCHANGED <<pc, request, feasible, elapsed, solveCalled, response>>

\* Wall-clock time passes while the search runs; the search reads its clock
\* every ClockStep seconds.
Tick ==
  /\ pc = "search"
  /\ WithinTimeLimit(elapsed)
  /\ elapsed' = elapsed + ClockStep
  /\ UNCHANGED <<pc, request, feasible, best, solveCalled, response>>

\* Line 109 returns: the search ends (at the latest when the limit has
\* elapsed, when nothing else is enabled) with the best assignment.
EndSearch ==
  /\ pc = "search"
  /\ pc' = "parse"
  /\ UNCHANGED <<request, feasible, best, elapsed, solveCalled, response>>

\* Lines 111-113: no solution.
Reject ==
  /\ pc = "nosolution"
  /\ response' = NoSolutionResponse
  /\ pc' = "done"
  /\ UNCHANGED <<request, feasible, best, elapsed, solveCalled>>

\* solution.Value(routing.NextVar(index)), line 128.
NextVar(s, index) == s.next[index]

\* The ends of a range that Assignment.Value may read.
ValueEnds == {"min", "max"}

\* solution.Value(time_var), lines 126 and 135, on a build that reads end e.
Value(s, e, index) == IF e = "min" THEN s.time_min[index] ELSE s.time_max[index]

\* Lines 122-127 and 131-136: one stop of a route.
Stop(r, s, e, index) ==
  [node |-> IndexToNode(r, index), arrival_time |-> Value(s, e, index)]

\* Lines 119-136: walk a vehicle's path from index to its end.
RECURSIVE Walk(_, _, _, _)
Walk(r, s, e, index) ==
  IF IsEnd(r, index) THEN <<Stop(r, s, e, index)>>
  ELSE <<Stop(r, s, e, index)>> \o Walk(r, s, e, NextVar(s, index))

\* A route is kept only when it has more than two stops between start and end.
Kept_Over4(route) == Len(route) > 4

\* Line 138: only the routes that are more than start-end are kept.
Kept(route) == Len(route) > 2

\* Every route is tagged with the first driver of the list.
Tagged_FirstDriver(r, vehicle_id, route) ==
  [driver_id |-> r.drivers[1].id,
   driver_name |-> r.drivers[1].name,
   driver_phone |-> r.drivers[1].phone,
   route |-> route]

\* Lines 139-144: the route with the driver it belongs to.
Tagged(r, vehicle_id, route) ==
  [driver_id |-> r.drivers[vehicle_id].id,
   driver_name |-> r.drivers[vehicle_id].name,
   driver_phone |-> r.drivers[vehicle_id].phone,
   route |-> route]

\* Lines 116-144: the routes of vehicles vehicle_id..num_vehicles, in order.
RECURSIVE RoutesOf(_, _, _, _)
RoutesOf(r, s, e, vehicle_id) ==
  IF vehicle_id > NumVehicles(r) THEN <<>>
  ELSE (IF Kept(Walk(r, s, e, Start(r, vehicle_id)))
        THEN <<Tagged(r, vehicle_id, Walk(r, s, e, Start(r, vehicle_id)))>>
        ELSE <<>>) \o RoutesOf(r, s, e, vehicle_id + 1)

\* Line 147.
SuccessResponse(routes) == [code |-> 200, status |-> "success", routes |-> routes]

\* Lines 115-147: parse the solution and answer.
ParseSolution ==
  /\ pc = "parse"
  /\ \E e \in ValueEnds : response' = SuccessResponse(RoutesOf(request, best, e, 1))
  /\ pc' = "done"
  /\ UNCHANGED <<request, feasible, best, elapsed, solveCalled>>

Next ==
  \/ BuildModel
  \/ FirstSolution
  \/ Improve
  \/ Tick
  \/ EndSearch
  \/ Reject
  \/ ParseSolution

Spec == Init /\ [][Next]_vars

\* The handler's thread keeps running until it has answered.
FairSpec == Spec /\ WF_vars(Next)

-----------------------------------------------------------------------------
(* What the claims speak of                                                *)

Succeeded == pc = "done" /\ response # None /\ response.code = 200

Rejected == pc = "done" /\ response = NoSolutionResponse

\* The nodes of the stops of a returned route strictly between its first
\* and its last stop.
IntermediateNodes(route) == {route[k].node : k \in 2..(Len(route) - 1)}

\* A vehicle's path in the accepted assignment, as indices.
RECURSIVE PathFrom(_, _, _)
PathFrom(r, s, index) ==
  IF IsEnd(r, index) THEN <<index>>
  ELSE <<index>> \o PathFrom(r, s, s.next[index])

\* The passengers that board (+) and leave (-) at an index, over every job.
RECURSIVE Boarding(_, _, _)
Boarding(r, js, i) ==
  IF js = <<>> THEN 0
  ELSE (IF pickup_idx(r, Head(js)) = i THEN Head(js).passengers ELSE 0)
       - (IF dropoff_idx(r, Head(js)) = i THEN Head(js).passengers ELSE 0)
       + Boarding(r, Tail(js), i)

\* The onboard load after position k of a path.
Onboard(r, path, k) == SumSeq([x \in 1..k |-> Boarding(r, r.jobs, path[x])])

IsSquare(r) ==
  \A i \in DOMAIN r.time_matrix : Cardinality(DOMAIN r.time_matrix[i]) = NumLocations(r)

Malformed(r) == ~HasAllKeys(r) \/ ~IsSquare(r)

\* Scenario A of the specification: one vehicle of capacity 4 with shift
\* [0, 36000]; one job of 1 passenger from A to B with target time 1000;
\* travel(A,B) = 500, travel(start,A) = 0, travel(B,end) = 0; the matrix has
\* no node besides start, end, A and B.
IsScenarioA(r) ==
  /\ HasAllKeys(r)
  /\ Len(r.drivers) = 1 /\ Len(r.jobs) = 1
  /\ r.drivers[1].capacity = 4
  /\ r.drivers[1].shift_start = 0 /\ r.drivers[1].shift_end = 36000
  /\ r.jobs[1].passengers = 1 /\ r.jobs[1].pickup_time = 1000
  /\ r.time_matrix[r.jobs[1].pickup_node][r.jobs[1].dropoff_node] = 500
  /\ r.time_matrix[r.drivers[1].start_idx][r.jobs[1].pickup_node] = 0
  /\ r.time_matrix[r.jobs[1].dropoff_node][r.drivers[1].end_idx] = 0
  /\ DOMAIN r.time_matrix =
       {r.drivers[1].start_idx, r.drivers[1].end_idx,
        r.jobs[1].pickup_node, r.jobs[1].dropoff_node}

-----------------------------------------------------------------------------
(* The claims                                                              *)

\* C1: in every success response, every job has its pickup node and its
\* dropoff node as stops of one and the same vehicle's route and of no other
\* route, and the arrival_time at the dropoff is at least that at the pickup.
C1_SameVehicleAndOrder ==
  Succeeded =>
    \A job \in Jobs(request) :
      \E x \in 1..Len(response.routes) :
        LET route == response.routes[x].route
        IN /\ \E k, l \in 2..(Len(route) - 1) :
                /\ route[k].node = job.pickup_node
                /\ route[l].node = job.dropoff_node
                /\ route[l].arrival_time >= route[k].arrival_time
           /\ \A y \in (1..Len(response.routes)) \ {x} :
                IntermediateNodes(response.routes[y].route)
                  \cap {job.pickup_node, job.dropoff_node} = {}

\* A success with two vehicles and a job without passengers, which the
\* Capacity dimension does not tie to one vehicle.
C1_Witness ==
  /\ Succeeded
  /\ NumVehicles(request) = 2
  /\ \E job \in Jobs(request) : job.passengers = 0
  /\ Len(response.routes) >= 1

\* C2: in every accepted assignment the onboard load (the running sum of
\* +passengers at each job's pickup index and -passengers at each job's
\* dropoff index) stays within [0, capacity] at every index of every
\* vehicle's path, for every job list.
C2_OnboardWithinCapacity ==
  Succeeded =>
    \A v \in Vehicles(request) :
      LET path == PathFrom(request, best, Start(request, v))
      IN \A k \in 1..Len(path) :
           /\ 0 <= Onboard(request, path, k)
           /\ Onboard(request, path, k) <= request.drivers[v].capacity

\* C3: in every accepted assignment the time value at every job's pickup
\* index lies within [pickup_time - 900, pickup_time + 900], and every
\* vehicle's start time equals its shift_start and its end time is at most
\* its shift_end.
C3_WindowsAndShifts ==
  Succeeded =>
    \A e \in ValueEnds :
      /\ \A job \in Jobs(request) :
           /\ job.pickup_time - 900 <= Value(best, e, pickup_idx(request, job))
           /\ Value(best, e, pickup_idx(request, job)) <= job.pickup_time + 900
      /\ \A v \in Vehicles(request) :
           /\ Value(best, e, Start(request, v)) = request.drivers[v].shift_start
           /\ Value(best, e, End(request, v)) <= request.drivers[v].shift_end

\* A success with a job on a vehicle whose shift starts inside the window.
C3_Witness ==
  /\ Succeeded
  /\ Len(request.jobs) >= 1
  /\ \E v \in Vehicles(request) :
       /\ request.drivers[v].shift_start = 1500
       /\ best.vehicle[pickup_idx(request, request.jobs[1])] = v

\* C4: in every success response every job's pickup node and dropoff node
\* appear as stops of some returned route.
C4_EveryJobServed ==
  Succeeded =>
    \A job \in Jobs(request) :
      \A n \in {job.pickup_node, job.dropoff_node} :
        \E x \in 1..Len(response.routes) : n \in IntermediateNodes(response.routes[x].route)

\* A success that serves two jobs.
C4_Witness == Succeeded /\ Len(request.jobs) = 2 /\ Len(response.routes) = 1

C6_MalformedRejectedBeforeSolve ==
  Malformed(request) =>
    /\ ~solveCalled
    /\ pc = "done" => (response # None /\ response.code = 500)

\* C7: a success response holds, for each vehicle whose path has a stop
\* between its start and its end, exactly one route and none for any other
\* vehicle; the route carries that vehicle's id, name and phone, and lists
\* the nodes and time values of the vehicle's path in path order, from its
\* start node to its end node.
C7_RoutesOfUsedVehicles ==
  Succeeded => \E e \in ValueEnds :
    /\ \A x \in 1..Len(response.routes) :
         \E v \in Vehicles(request) : response.routes[x].driver_id = request.drivers[v].id
    /\ \A v \in Vehicles(request) :
         LET path == PathFrom(request, best, Start(request, v))
             mine == {x \in 1..Len(response.routes) :
                        response.routes[x].driver_id = request.drivers[v].id}
         IN IF Len(path) = 2 THEN mine = {}
            ELSE /\ Cardinality(mine) = 1
                 /\ \A x \in mine :
                      /\ response.routes[x].driver_name = request.drivers[v].name
                      /\ response.routes[x].driver_phone = request.drivers[v].phone
                      /\ Len(response.routes[x].route) = Len(path)
                      /\ \A k \in 1..Len(path) :
                           /\ response.routes[x].route[k].node = IndexToNode(request, path[k])
                           /\ response.routes[x].route[k].arrival_time = Value(best, e, path[k])
                      /\ response.routes[x].route[1].node = request.drivers[v].start_idx
                      /\ response.routes[x].route[Len(path)].node = request.drivers[v].end_idx

\* A success with two vehicles of which exactly one is used.
C7_Witness ==
  /\ Succeeded
  /\ NumVehicles(request) = 2
  /\ Len(response.routes) = 1
  /\ Len(request.jobs) >= 1

\* C8: every request ends with exactly one response; the search never runs
\* past the 30 second limit; and when the search was run, the response is
\* the routes of the best assignment found, or the no-solution outcome when
\* no assignment satisfies the model.
C8_AnswersWithinLimit ==
  /\ <>(pc = "done" /\ response # None)
  /\ [][response # None => response' = response]_vars
  /\ [](elapsed <= TimeLimitSeconds)
  /\ []((pc = "done" /\ solveCalled) =>
          IF feasible = {} THEN response = NoSolutionResponse
          ELSE /\ best \in feasible
               /\ \E e \in ValueEnds :
                    response = SuccessResponse(RoutesOf(request, best, e, 1)))

\* A search that ran until the limit and was answered with a success.
C8_Witness == Succeeded /\ elapsed = TimeLimitSeconds

C10_OnlyJobNodesVisited ==
  Succeeded =>
    \A x \in 1..Len(response.routes) :
      IntermediateNodes(response.routes[x].route)
        \subseteq UNION {{job.pickup_node, job.dropoff_node} : job \in Jobs(request)}

====
